---- MODULE Spec2Model ----
(***************************************************************************)
(* FungibleToken (src/contracts/src/erc20.ts): an ERC-20 style token       *)
(* contract for Mina.  Two on-chain fields (totalAmountInCirculation,      *)
(* commitment), token balances kept by the ledger, events emitted by the   *)
(* methods.  A method runs against a snapshot of the on-chain state and    *)
(* yields a transaction (preconditions, state updates, balance changes,    *)
(* events) that the ledger settles atomically or rejects.                  *)
(***************************************************************************)
EXTENDS Integers, Sequences, FiniteSets, TLC

VARIABLES
    totalAmountInCirculation, \* @state(UInt64), erc20.ts:92
    commitment,               \* @state(Field), erc20.ts:93
    balance,                  \* token balance of every account (the ledger)
    zkapps,                   \* token accounts created by deployZkapp
    storage,                  \* the off-chain allowance table behind commitment
    pending,                  \* transactions constructed and not yet settled
    last,                     \* the most recent call: arguments and outcome
    applied,                  \* net amount of the mints and burns that took effect
    nOps                      \* number of steps taken so far

vars == <<totalAmountInCirculation, commitment, balance, zkapps, storage,
          pending, last, applied, nOps>>

----------------------------------------------------------------------------
(* Bounds of the model *)

\* UInt64 is modelled with a narrower range 0..MaxUInt64; every overflow and
\* underflow check of the source is kept, against this maximum.
MaxUInt64 == 127

\* Number of calls in one behaviour of Spec.
MaxOps == 2

\* Number of calls in one behaviour of SpecSupply.
SupplyOps == 4

\* Number of calls in one behaviour of SpecScenario.
ScenarioOps == 4

\* Transactions that may be in flight at once, and the number of construct
\* and settle steps in one behaviour of SpecConcurrent.
MaxPending == 2
MaxSteps == 5

\* Number of steps in one behaviour of SpecAtomic.
AtomicOps == 3

\* Number of calls in one behaviour of SpecLedger.
LedgerOps == 4

\* The accounts of the ledger, and the inputs of the calls: the accounts that
\* call and are named in calls, and the amounts (zero, one, the maximum).
Accounts == {"A", "B", "C"}
NoAccount == "-"
Users == {"A", "B"}
Amounts == {0, 1, MaxUInt64}

ThisToken == "FT-id"
OtherToken == "MINA"

----------------------------------------------------------------------------
(* Field elements and the Poseidon hash.  A hash is the symbolic term of   *)
(* its inputs: deterministic, order-sensitive and collision-free.          *)

Field(n) == <<"F", <<n>>>>

\* The root of an empty subtree (MerkleTree.zeroes[level]) is the hash of two
\* roots of the empty subtree one level down, Field(0) at level 0.  The term
\* <<"Z", <<level>>>> stands for that nested hash, whoever computes it.
IsZero(f) == f = Field(0) \/ f[1] = "Z"
ZeroLevel(f) == IF f = Field(0) THEN 0 ELSE f[2][1]

Poseidon_hash(fields) ==
    IF /\ Len(fields) = 2
       /\ IsZero(fields[1]) /\ IsZero(fields[2])
       /\ ZeroLevel(fields[1]) = ZeroLevel(fields[2])
    THEN <<"Z", <<ZeroLevel(fields[1]) + 1>>>>
    ELSE <<"H", fields>>

\* let initialCommitment: Field = Field(0)
initialCommitment == Field(0)

tokenSymbol == "FT"

\* class Allowance extends Struct({owner, spender, value}) { hash() }
Allowance_hash(owner, spender, value) ==
    Poseidon_hash(<<owner, spender, value>>)

----------------------------------------------------------------------------
(* MerkleTree / MerkleWitness(8) of snarkyjs: a tree of height 8 has       *)
(* 2^(8-1) leaves, an empty leaf is Field(0), a witness has height-1       *)
(* entries (isLeft, sibling), leaf first.                                  *)

Height == 8

RECURSIVE Pow2(_)
Pow2(n) == IF n = 0 THEN 1 ELSE 2 * Pow2(n - 1)

\* MerkleTree.zeroes: the root of an empty subtree whose leaves are `level`
\* levels below it.
RECURSIVE Zero(_)
Zero(level) ==
    IF level = 0 THEN Field(0)
    ELSE LET z == Zero(level - 1) IN Poseidon_hash(<<z, z>>)

\* The canonical leaf index of the record of (owner, spender) in the
\* off-chain tree.
Ord(a) == CASE a = "A" -> 0 [] a = "B" -> 1 [] a = "C" -> 2
LeafIndex(owner, spender) == Cardinality(Accounts) * Ord(owner) + Ord(spender)
NumSlots == Cardinality(Accounts) * Cardinality(Accounts)

\* The leaf of slot i in the tree over a table of Allowance records (at most
\* one record per (owner, spender)).
Leaf(table, i) ==
    IF \E r \in table : LeafIndex(r.owner, r.spender) = i
    THEN LET r == CHOOSE q \in table : LeafIndex(q.owner, q.spender) = i
         IN Allowance_hash(r.owner, r.spender, r.value)
    ELSE Field(0)

\* MerkleTree.getNode(level, index)
RECURSIVE Node(_, _, _)
Node(table, level, i) ==
    IF level = 0 THEN Leaf(table, i)
    ELSE IF i * Pow2(level) >= NumSlots THEN Zero(level)
    ELSE Poseidon_hash(<<Node(table, level - 1, 2 * i),
                         Node(table, level - 1, 2 * i + 1)>>)

\* MerkleTree.getRoot()
MerkleRoot(table) == Node(table, Height - 1, 0)

\* MerkleTree.getWitness(index)
MerkleTree_getWitness(table, index) ==
    [k \in 1..(Height - 1) |->
        LET at == index \div Pow2(k - 1) IN
        [isLeft  |-> at % 2 = 0,
         sibling |-> Node(table, k - 1, IF at % 2 = 0 THEN at + 1 ELSE at - 1)]]

\* MerkleWitness.calculateRoot(leaf)
RECURSIVE CalculateRootFrom(_, _, _)
CalculateRootFrom(path, hash, k) ==
    IF k > Len(path) THEN hash
    ELSE LET left  == IF path[k].isLeft THEN hash ELSE path[k].sibling
             right == IF path[k].isLeft THEN path[k].sibling ELSE hash
         IN CalculateRootFrom(path, Poseidon_hash(<<left, right>>), k + 1)

calculateRoot(path, leaf) == CalculateRootFrom(path, leaf, 1)

EmptyTable == {}

----------------------------------------------------------------------------
(* UInt64 arithmetic: add and sub assert that the result is in range.      *)

UInt64_add(x, y) == [ok |-> x + y <= MaxUInt64, value |-> x + y]

\* sub that wraps around in place of failing.
UInt64_sub_wrapping(x, y) ==
    [ok |-> TRUE, value |-> (x - y) % (MaxUInt64 + 1)]

UInt64_sub(x, y) == [ok |-> x >= y, value |-> x - y]

----------------------------------------------------------------------------
(* Transactions.  Running a method against a snapshot gives                *)
(*   ok            no assertion failed while the method ran                *)
(*   preTotal      the values totalAmountInCirculation.assertEquals named   *)
(*   preBalance    the (account, balance) pairs account.balance.assertEquals*)
(*                 named                                                   *)
(*   setTotal      the value totalAmountInCirculation.set wrote, if any     *)
(*   setCommitment the value commitment.set wrote, if any                  *)
(*   balanceChange the signed balance change of every token account        *)
(*   deployed      the token accounts created                              *)
(*   events        the events emitted, in order                            *)
(*   ret           the value returned                                      *)

NoChange == [a \in Accounts |-> 0]

Credit(account, amount) ==
    [a \in Accounts |-> IF a = account THEN amount ELSE 0]

Plus(c1, c2) == [a \in Accounts |-> c1[a] + c2[a]]

EmptyTx ==
    [ok |-> TRUE, preTotal |-> {}, preBalance |-> {}, setTotal |-> {},
     setCommitment |-> {}, balanceChange |-> NoChange, deployed |-> {},
     events |-> <<>>, ret |-> <<>>]

\* A method whose assertion failed: the transaction is never built.
Aborted == [EmptyTx EXCEPT !.ok = FALSE]

TransferEvent(from, to, value) ==
    [type |-> "Transfer", from |-> from, to |-> to, value |-> value]

ApprovalEvent(owner, spender, value) ==
    [type |-> "Approval", owner |-> owner, spender |-> spender, value |-> value]

----------------------------------------------------------------------------
(* The methods of FungibleToken, each a function of the snapshot it reads, *)
(* the sender and its arguments.                                           *)

\* init(): totalAmountInCirculation.set(UInt64.zero); commitment.set(initialCommitment)
init ==
    [EmptyTx EXCEPT !.setTotal = {0}, !.setCommitment = {initialCommitment}]

name == [EmptyTx EXCEPT !.ret = <<"FungibleToken">>]

symbol == [EmptyTx EXCEPT !.ret = <<tokenSymbol>>]

Decimals == 18
decimals == [EmptyTx EXCEPT !.ret = <<Decimals>>]

totalSupply(total) == [EmptyTx EXCEPT !.ret = <<total>>]

\* balanceOf: reads the balance and asserts the value read.
balanceOf(bal, owner) ==
    [EmptyTx EXCEPT !.preBalance = {<<owner, bal[owner]>>},
                    !.ret = <<bal[owner]>>]

\* allowance(owner, spender, path): line 136 calls Allowance.get, which the
\* Allowance struct does not have, and the callers pass `witness`, which is
\* not declared; line 137 returns UInt64.zero.  The build either stops the
\* call there (threw) or reaches the return: both outcomes are possible, and
\* neither depends on owner, spender, path or the commitment.
allowance(owner, spender, path) ==
    {[threw |-> TRUE, value |-> 0], [threw |-> FALSE, value |-> 0]}

\* mint without totalAmountInCirculation.set.
mint_uncounted(total, account, amount) ==
    LET newTotalAmountInCirculation == UInt64_add(total, amount) IN
    IF ~newTotalAmountInCirculation.ok THEN Aborted
    ELSE [EmptyTx EXCEPT
            !.preTotal = {total},
            !.balanceChange = Credit(account, amount),
            !.ret = <<TRUE>>]

\* mint without totalAmountInCirculation.assertEquals.
mint_unasserted(total, account, amount) ==
    LET newTotalAmountInCirculation == UInt64_add(total, amount) IN
    IF ~newTotalAmountInCirculation.ok THEN Aborted
    ELSE [EmptyTx EXCEPT
            !.balanceChange = Credit(account, amount),
            !.setTotal = {newTotalAmountInCirculation.value},
            !.ret = <<TRUE>>]

mint(total, account, amount) ==
    LET newTotalAmountInCirculation == UInt64_add(total, amount) IN
    IF ~newTotalAmountInCirculation.ok THEN Aborted
    ELSE [EmptyTx EXCEPT
            !.preTotal = {total},
            !.balanceChange = Credit(account, amount),
            !.setTotal = {newTotalAmountInCirculation.value},
            !.ret = <<TRUE>>]

\* burn with the sum of mint in place of the difference.
burn_adding(total, sender, amount) ==
    LET newTotalAmountInCirculation == UInt64_add(total, amount) IN
    IF ~newTotalAmountInCirculation.ok THEN Aborted
    ELSE [EmptyTx EXCEPT
            !.preTotal = {total},
            !.balanceChange = Credit(sender, -amount),
            !.setTotal = {newTotalAmountInCirculation.value},
            !.ret = <<TRUE>>]

burn(total, sender, amount) ==
    LET newTotalAmountInCirculation == UInt64_sub(total, amount) IN
    IF ~newTotalAmountInCirculation.ok THEN Aborted
    ELSE [EmptyTx EXCEPT
            !.preTotal = {total},
            !.balanceChange = Credit(sender, -amount),
            !.setTotal = {newTotalAmountInCirculation.value},
            !.ret = <<TRUE>>]

\* this.token.send({from, to, amount})
token_send(from, to, amount) == Plus(Credit(from, -amount), Credit(to, amount))

\* transfer without emitEvent.
transfer_silent(sender, to, value) ==
    [EmptyTx EXCEPT
        !.balanceChange = token_send(sender, to, value),
        !.ret = <<TRUE>>]

transfer(sender, to, value) ==
    [EmptyTx EXCEPT
        !.balanceChange = token_send(sender, to, value),
        !.events = <<TransferEvent(sender, to, value)>>,
        !.ret = <<TRUE>>]

\* transferFrom without the assertion on the allowance.
transferFrom_unchecked(sender, from, to, value, allowed) ==
    [EmptyTx EXCEPT
        !.balanceChange = token_send(from, to, value),
        !.events = <<TransferEvent(from, to, value)>>,
        !.ret = <<TRUE>>]

\* `allowed` is what this.allowance(from, this.sender, witness) gave.
transferFrom(sender, from, to, value, allowed) ==
    IF allowed.threw \/ ~(allowed.value >= value) THEN Aborted
    ELSE [EmptyTx EXCEPT
            !.balanceChange = token_send(from, to, value),
            !.events = <<TransferEvent(from, to, value)>>,
            !.ret = <<TRUE>>]

\* approveSpend that first asserts that path leads from the current leaf of
\* (sender, spender) to the current commitment.
approveSpend_verifying(sender, spender, value, path) ==
    IF calculateRoot(path, Leaf(storage, LeafIndex(sender, spender))) = commitment
    THEN [EmptyTx EXCEPT
            !.setCommitment =
                {calculateRoot(path, Allowance_hash(sender, spender, value))},
            !.events = <<ApprovalEvent(sender, spender, value)>>,
            !.ret = <<TRUE>>]
    ELSE Aborted

approveSpend(sender, spender, value, path) ==
    LET newCommitment == calculateRoot(path, Allowance_hash(sender, spender, value))
    IN [EmptyTx EXCEPT
            !.setCommitment = {newCommitment},
            !.events = <<ApprovalEvent(sender, spender, value)>>,
            !.ret = <<TRUE>>]

\* `current` is what this.allowance(this.sender, spender, witness) gave.
increaseAllowance(sender, spender, addedValue, path, current) ==
    IF current.threw THEN Aborted
    ELSE LET sum == UInt64_add(current.value, addedValue) IN
         IF ~sum.ok THEN Aborted
         ELSE approveSpend(sender, spender, sum.value, path)

decreaseAllowance(sender, spender, subtractedValue, path, current) ==
    IF current.threw THEN Aborted
    ELSE LET diff == UInt64_sub(current.value, subtractedValue) IN
         IF ~diff.ok THEN Aborted
         ELSE approveSpend(sender, spender, diff.value, path)

\* A callback is described by the account update it produces: publicKey,
\* tokenId, balanceChange (signed) and the number of its child updates.
\* this.approve(callback, AccountUpdate.Layout.NoChildren)
\* approve that accepts any layout.
approve_AnyLayout(callback) == TRUE

approve_NoChildren(callback) == callback.children = 0

\* transferFromZkapp without the credit of `to`.
transferFromZkapp_uncredited(from, to, value, approve) ==
    IF /\ approve_NoChildren(approve)
       /\ approve.balanceChange = -value
       /\ approve.tokenId = ThisToken
       /\ approve.publicKey = from
    THEN [EmptyTx EXCEPT
            !.balanceChange = Credit(approve.publicKey, approve.balanceChange),
            !.events = <<TransferEvent(from, to, value)>>,
            !.ret = <<TRUE>>]
    ELSE Aborted

transferFromZkapp(from, to, value, approve) ==
    IF /\ approve_NoChildren(approve)
       /\ approve.balanceChange = -value
       /\ approve.tokenId = ThisToken
       /\ approve.publicKey = from
    THEN [EmptyTx EXCEPT
            !.balanceChange =
                Plus(Credit(approve.publicKey, approve.balanceChange),
                     Credit(to, value)),
            !.events = <<TransferEvent(from, to, value)>>,
            !.ret = <<TRUE>>]
    ELSE Aborted

\* deployZkapp that writes the fields as init does.
deployZkapp_resetting(zkappAddress) ==
    [EmptyTx EXCEPT !.deployed = {zkappAddress},
                    !.setTotal = {0},
                    !.setCommitment = {initialCommitment}]

deployZkapp(zkappAddress) == [EmptyTx EXCEPT !.deployed = {zkappAddress}]

\* approveZkapp without the assertion on the balance change.
approveZkapp_unchecked(callback) ==
    IF approve_NoChildren(callback)
    THEN [EmptyTx EXCEPT
            !.balanceChange =
                IF callback.tokenId = ThisToken
                THEN Credit(callback.publicKey, callback.balanceChange)
                ELSE NoChange]
    ELSE Aborted

\* The approved update is of any token; only an update of this token moves
\* a balance of this token.
approveZkapp(callback) ==
    IF approve_NoChildren(callback) /\ callback.balanceChange = 0
    THEN [EmptyTx EXCEPT
            !.balanceChange =
                IF callback.tokenId = ThisToken
                THEN Credit(callback.publicKey, callback.balanceChange)
                ELSE NoChange]
    ELSE Aborted

----------------------------------------------------------------------------
(* Settlement: the ledger applies a transaction atomically when its        *)
(* preconditions hold on the current state and every balance stays in      *)
(* 0..MaxUInt64, and rejects it as a whole otherwise.                      *)

CanSettle(tx) ==
    /\ tx.ok
    /\ \A v \in tx.preTotal : v = totalAmountInCirculation
    /\ \A b \in tx.preBalance : balance[b[1]] = b[2]
    /\ \A a \in Accounts :
          /\ balance[a] + tx.balanceChange[a] >= 0
          /\ balance[a] + tx.balanceChange[a] <= MaxUInt64

\* The off-chain table follows the Approval events: the record of
\* (owner, spender) is replaced by the approved one.
RECURSIVE Mirror(_, _)
Mirror(table, events) ==
    IF events = <<>> THEN table
    ELSE LET e == Head(events)
             next == IF e.type = "Approval"
                     THEN {r \in table : ~(r.owner = e.owner /\ r.spender = e.spender)}
                          \cup {[owner |-> e.owner, spender |-> e.spender,
                                 value |-> e.value]}
                     ELSE table
         IN Mirror(next, Tail(events))

Apply(tx) ==
    /\ totalAmountInCirculation' =
          IF tx.setTotal = {} THEN totalAmountInCirculation
          ELSE CHOOSE v \in tx.setTotal : TRUE
    /\ commitment' =
          IF tx.setCommitment = {} THEN commitment
          ELSE CHOOSE c \in tx.setCommitment : TRUE
    /\ balance' = [a \in Accounts |-> balance[a] + tx.balanceChange[a]]
    /\ zkapps' = zkapps \cup tx.deployed
    /\ storage' = Mirror(storage, tx.events)

Settle(tx) ==
    IF CanSettle(tx) THEN Apply(tx)
    ELSE UNCHANGED <<totalAmountInCirculation, commitment, balance, zkapps, storage>>

----------------------------------------------------------------------------
(* Calls.  `last` keeps the call just made: the method, the sender, the    *)
(* arguments, the state it was built against (snapshot), the allowance of  *)
(* (from, to) in the off-chain table at that time (prior), whether it took *)
(* effect, the events it emitted and the value it returned.                *)

NoPath == <<>>
NoCallback ==
    [publicKey |-> NoAccount, tokenId |-> ThisToken, balanceChange |-> 0,
     children |-> 0]

\* The allowance the off-chain table holds for (owner, spender): the value of
\* the latest Approval event of the pair, zero when there is none.
TrueAllowance(table, owner, spender) ==
    IF \E r \in table : r.owner = owner /\ r.spender = spender
    THEN (CHOOSE r \in table : r.owner = owner /\ r.spender = spender).value
    ELSE 0

Snapshot ==
    [total |-> totalAmountInCirculation, commitment |-> commitment,
     balance |-> balance]

NoCall ==
    [op |-> "init", sender |-> NoAccount, from |-> NoAccount, to |-> NoAccount,
     value |-> 0, path |-> NoPath, callback |-> NoCallback,
     snapshot |-> [total |-> 0, commitment |-> initialCommitment,
                   balance |-> [a \in Accounts |-> 0]],
     prior |-> 0, ok |-> TRUE, events |-> <<>>, ret |-> <<>>]

CallOf(op, sender, from, to, value) ==
    [NoCall EXCEPT !.op = op, !.sender = sender, !.from = from, !.to = to,
                   !.value = value, !.snapshot = Snapshot,
                   !.prior = TrueAllowance(storage, from, to)]

Outcome(call, tx) ==
    [call EXCEPT !.ok = CanSettle(tx),
                 !.events = IF CanSettle(tx) THEN tx.events ELSE <<>>,
                 !.ret = IF CanSettle(tx) THEN tx.ret ELSE <<>>]

\* The signed amount a call adds to the supply when it takes effect.
SignedAmount(call) ==
    CASE call.op = "mint" -> call.value
      [] call.op = "burn" -> -call.value
      [] OTHER -> 0

\* Settling the transaction of a call, now.
Submit(call, tx) ==
    /\ Settle(tx)
    /\ last' = Outcome(call, tx)
    /\ applied' = IF CanSettle(tx) THEN applied + SignedAmount(call) ELSE applied
    /\ nOps' = nOps + 1

\* A call built against the current state and settled at once.
Call(call, tx) ==
    /\ Submit(call, tx)
    /\ UNCHANGED pending

\* The witnesses a caller may pass for (owner, spender): the path of its slot
\* in the current off-chain tree, the path of its slot in the empty tree (a
\* client that never followed the events), and the path of another slot.
Paths(owner, spender) ==
    {MerkleTree_getWitness(storage, LeafIndex(owner, spender)),
     MerkleTree_getWitness(EmptyTable, LeafIndex(owner, spender)),
     MerkleTree_getWitness(storage, LeafIndex(spender, owner))}

CorrectPath(owner, spender) ==
    MerkleTree_getWitness(storage, LeafIndex(owner, spender))

\* The account updates a callback may produce for a transfer of `value` from
\* `from`: the exact debit, and the debit with one thing wrong (the amount,
\* a child update, the token, the account).
Callbacks(from, value) ==
    LET exact == [publicKey |-> from, tokenId |-> ThisToken,
                  balanceChange |-> -value, children |-> 0]
    IN {exact,
        [exact EXCEPT !.balanceChange = 1 - value],
        [exact EXCEPT !.children = 1],
        [exact EXCEPT !.tokenId = OtherToken]}
    \cup {[exact EXCEPT !.publicKey = a] : a \in Users}

\* The account updates a callback may produce for approveZkapp.
ZkappCallbacks ==
    {[publicKey |-> a, tokenId |-> t, balanceChange |-> d, children |-> c] :
        a \in Users, t \in {ThisToken}, d \in {-1, 0, 1}, c \in {0, 1}}
    \cup {[publicKey |-> a, tokenId |-> OtherToken, balanceChange |-> 0,
           children |-> 0] : a \in Users}

Mint(account, amount) ==
    Call(CallOf("mint", NoAccount, NoAccount, account, amount),
         mint(totalAmountInCirculation, account, amount))

Burn(sender, amount) ==
    Call(CallOf("burn", sender, sender, NoAccount, amount),
         burn(totalAmountInCirculation, sender, amount))

Transfer(sender, to, value) ==
    Call(CallOf("transfer", sender, sender, to, value),
         transfer(sender, to, value))

TransferFrom(sender, from, to, value) ==
    \E allowed \in allowance(from, sender, NoPath) :
        Call(CallOf("transferFrom", sender, from, to, value),
             transferFrom(sender, from, to, value, allowed))

ApproveSpend(sender, spender, value, path) ==
    Call([CallOf("approveSpend", sender, sender, spender, value)
              EXCEPT !.path = path],
         approveSpend(sender, spender, value, path))

IncreaseAllowance(sender, spender, addedValue, path) ==
    \E current \in allowance(sender, spender, NoPath) :
        Call([CallOf("increaseAllowance", sender, sender, spender, addedValue)
                  EXCEPT !.path = path],
             increaseAllowance(sender, spender, addedValue, path, current))

DecreaseAllowance(sender, spender, subtractedValue, path) ==
    \E current \in allowance(sender, spender, NoPath) :
        Call([CallOf("decreaseAllowance", sender, sender, spender, subtractedValue)
                  EXCEPT !.path = path],
             decreaseAllowance(sender, spender, subtractedValue, path, current))

TransferFromZkapp(from, to, value, approve) ==
    Call([CallOf("transferFromZkapp", NoAccount, from, to, value)
              EXCEPT !.callback = approve],
         transferFromZkapp(from, to, value, approve))

DeployZkapp(zkappAddress) ==
    Call(CallOf("deployZkapp", NoAccount, NoAccount, zkappAddress, 0),
         deployZkapp(zkappAddress))

ApproveZkapp(callback) ==
    Call([CallOf("approveZkapp", NoAccount, NoAccount, NoAccount, 0)
              EXCEPT !.callback = callback],
         approveZkapp(callback))

\* allowance called on its own, as a client does to read an allowance.
ReadAllowance(owner, spender, path) ==
    \E r \in allowance(owner, spender, path) :
        Call([CallOf("allowance", NoAccount, owner, spender, 0)
                  EXCEPT !.path = path],
             IF r.threw THEN Aborted ELSE [EmptyTx EXCEPT !.ret = <<r.value>>])

ReadName == Call(CallOf("name", NoAccount, NoAccount, NoAccount, 0), name)
ReadSymbol == Call(CallOf("symbol", NoAccount, NoAccount, NoAccount, 0), symbol)
ReadDecimals == Call(CallOf("decimals", NoAccount, NoAccount, NoAccount, 0), decimals)
ReadTotalSupply ==
    Call(CallOf("totalSupply", NoAccount, NoAccount, NoAccount, 0),
         totalSupply(totalAmountInCirculation))
ReadBalanceOf(owner) ==
    Call(CallOf("balanceOf", NoAccount, owner, NoAccount, 0),
         balanceOf(balance, owner))

----------------------------------------------------------------------------
(* The contract after deploy and init.                                     *)

Init ==
    /\ totalAmountInCirculation = CHOOSE v \in init.setTotal : TRUE
    /\ commitment = CHOOSE c \in init.setCommitment : TRUE
    /\ balance = [a \in Accounts |-> 0]
    /\ zkapps = {}
    /\ storage = EmptyTable
    /\ pending = <<>>
    /\ last = NoCall
    /\ applied = 0
    /\ nOps = 0

\* The calls a user of the contract may make, with their inputs.
CallMint ==
    /\ nOps < MaxOps
    /\ \E account \in Users, amount \in Amounts : Mint(account, amount)
CallBurn ==
    /\ nOps < MaxOps
    /\ \E sender \in Users, amount \in Amounts : Burn(sender, amount)
CallTransfer ==
    /\ nOps < MaxOps
    /\ \E sender, to \in Users, value \in Amounts : Transfer(sender, to, value)
CallTransferFrom ==
    /\ nOps < MaxOps
    /\ \E sender, from, to \in Users, value \in Amounts :
           TransferFrom(sender, from, to, value)
CallApproveSpend ==
    /\ nOps < MaxOps
    /\ \E sender, spender \in Users :
           \E path \in Paths(sender, spender), value \in Amounts :
               ApproveSpend(sender, spender, value, path)
CallIncreaseAllowance ==
    /\ nOps < MaxOps
    /\ \E sender, spender \in Users :
           \E path \in Paths(sender, spender), addedValue \in Amounts :
               IncreaseAllowance(sender, spender, addedValue, path)
CallDecreaseAllowance ==
    /\ nOps < MaxOps
    /\ \E sender, spender \in Users :
           \E path \in Paths(sender, spender), subtractedValue \in Amounts :
               DecreaseAllowance(sender, spender, subtractedValue, path)
CallTransferFromZkapp ==
    /\ nOps < MaxOps
    /\ \E from, to \in Users, value \in Amounts :
           \E approve \in Callbacks(from, value) :
               TransferFromZkapp(from, to, value, approve)
CallDeployZkapp ==
    /\ nOps < MaxOps
    /\ \E zkappAddress \in Users : DeployZkapp(zkappAddress)
CallApproveZkapp ==
    /\ nOps < MaxOps
    /\ \E callback \in ZkappCallbacks : ApproveZkapp(callback)
CallAllowance ==
    /\ nOps < MaxOps
    /\ \E owner, spender \in Users :
           \E path \in Paths(owner, spender) : ReadAllowance(owner, spender, path)
CallBalanceOf ==
    /\ nOps < MaxOps
    /\ \E owner \in Users : ReadBalanceOf(owner)

CallName == nOps < MaxOps /\ ReadName
CallSymbol == nOps < MaxOps /\ ReadSymbol
CallDecimals == nOps < MaxOps /\ ReadDecimals
CallTotalSupply == nOps < MaxOps /\ ReadTotalSupply

Next ==
    \/ CallMint
    \/ CallBurn
    \/ CallTransfer
    \/ CallTransferFrom
    \/ CallApproveSpend
    \/ CallIncreaseAllowance
    \/ CallDecreaseAllowance
    \/ CallTransferFromZkapp
    \/ CallDeployZkapp
    \/ CallApproveZkapp
    \/ CallAllowance
    \/ CallName
    \/ CallSymbol
    \/ CallDecimals
    \/ CallTotalSupply
    \/ CallBalanceOf

Spec == Init /\ [][Next]_vars

----------------------------------------------------------------------------
(* SpecSupply: the calls that move supply and balances (mint, burn,        *)
(* transfer), in longer sequences.                                         *)

SupplyMint ==
    /\ nOps < SupplyOps
    /\ \E account \in Users, amount \in Amounts : Mint(account, amount)
SupplyBurn ==
    /\ nOps < SupplyOps
    /\ \E sender \in Users, amount \in Amounts : Burn(sender, amount)
SupplyTransfer ==
    /\ nOps < SupplyOps
    /\ \E sender, to \in Users, value \in Amounts : Transfer(sender, to, value)

SupplyNext == SupplyMint \/ SupplyBurn \/ SupplyTransfer

SpecSupply == Init /\ [][SupplyNext]_vars

----------------------------------------------------------------------------
(* SpecConcurrent: transactions are built against the state at the time    *)
(* (Construct: the method runs, its assertions pass, the transaction waits *)
(* in `pending`) and settled later in any order (SettlePending).           *)

ConcurrentAmounts == {0, 1}

Construct(call, tx) ==
    /\ nOps < MaxSteps
    /\ Len(pending) < MaxPending
    /\ tx.ok
    /\ pending' = Append(pending, [call |-> call, tx |-> tx])
    /\ nOps' = nOps + 1
    /\ UNCHANGED <<totalAmountInCirculation, commitment, balance, zkapps,
                   storage, last, applied>>

ConstructMint ==
    \E account \in Users, amount \in ConcurrentAmounts :
        Construct(CallOf("mint", NoAccount, NoAccount, account, amount),
                  mint(totalAmountInCirculation, account, amount))

ConstructBurn ==
    \E sender \in Users, amount \in ConcurrentAmounts :
        Construct(CallOf("burn", sender, sender, NoAccount, amount),
                  burn(totalAmountInCirculation, sender, amount))

ConstructApproveSpend ==
    \E sender, spender \in Users, value \in {1} :
        LET path == CorrectPath(sender, spender) IN
        Construct([CallOf("approveSpend", sender, sender, spender, value)
                       EXCEPT !.path = path],
                  approveSpend(sender, spender, value, path))

Without(seq, i) == SubSeq(seq, 1, i - 1) \o SubSeq(seq, i + 1, Len(seq))

SettlePending ==
    /\ nOps < MaxSteps
    /\ \E i \in 1..Len(pending) :
           /\ Submit(pending[i].call, pending[i].tx)
           /\ pending' = Without(pending, i)

ConcurrentNext ==
    \/ ConstructMint
    \/ ConstructBurn
    \/ ConstructApproveSpend
    \/ SettlePending

SpecConcurrent == Init /\ [][ConcurrentNext]_vars

----------------------------------------------------------------------------
(* SpecScenario: the allowance scenario.  A is minted 100, A approves B    *)
(* for 40, B moves 30 and then 20 of A's tokens to C.                      *)

ScenarioMint ==
    /\ nOps < ScenarioOps
    /\ \E amount \in {100} : Mint("A", amount)
ScenarioApproveSpend ==
    /\ nOps < ScenarioOps
    /\ \E value \in {40} : ApproveSpend("A", "B", value, CorrectPath("A", "B"))
ScenarioTransferFrom ==
    /\ nOps < ScenarioOps
    /\ \E sender \in {"B", "C"}, value \in {20, 30, 41} :
           TransferFrom(sender, "A", "C", value)
ScenarioAllowance ==
    /\ nOps < ScenarioOps
    /\ ReadAllowance("A", "B", CorrectPath("A", "B"))

ScenarioNext ==
    \/ ScenarioMint
    \/ ScenarioApproveSpend
    \/ ScenarioTransferFrom
    \/ ScenarioAllowance

SpecScenario == Init /\ [][ScenarioNext]_vars

----------------------------------------------------------------------------
(* SpecAtomic: the calls that can fail, settled at once or built against   *)
(* the state at the time and settled later, so that every way a call fails *)
(* occurs: an assertion of the method, a precondition that went stale, a   *)
(* balance the ledger refuses.                                             *)

AtomicMint ==
    /\ nOps < AtomicOps
    /\ \E account \in Users, amount \in Amounts : Mint(account, amount)
AtomicBurn ==
    /\ nOps < AtomicOps
    /\ \E sender \in Users, amount \in Amounts : Burn(sender, amount)
AtomicApproveSpend ==
    /\ nOps < AtomicOps
    /\ \E sender, spender \in Users, value \in {1} :
           ApproveSpend(sender, spender, value, CorrectPath(sender, spender))
AtomicTransferFrom ==
    /\ nOps < AtomicOps
    /\ \E sender, from \in Users, to \in {"C"}, value \in ConcurrentAmounts :
           TransferFrom(sender, from, to, value)
AtomicTransferFromZkapp ==
    /\ nOps < AtomicOps
    /\ \E from \in Users, to \in {"C"}, value \in ConcurrentAmounts :
           \E approve \in Callbacks(from, value) :
               TransferFromZkapp(from, to, value, approve)
AtomicApproveZkapp ==
    /\ nOps < AtomicOps
    /\ \E callback \in ZkappCallbacks : ApproveZkapp(callback)
AtomicConstructMint == nOps < AtomicOps /\ ConstructMint
AtomicConstructBurn == nOps < AtomicOps /\ ConstructBurn
AtomicSettle == nOps < AtomicOps /\ SettlePending

AtomicNext ==
    \/ AtomicMint
    \/ AtomicBurn
    \/ AtomicApproveSpend
    \/ AtomicTransferFrom
    \/ AtomicTransferFromZkapp
    \/ AtomicApproveZkapp
    \/ AtomicConstructMint
    \/ AtomicConstructBurn
    \/ AtomicSettle

SpecAtomic == Init /\ [][AtomicNext]_vars

----------------------------------------------------------------------------
(* SpecLedger: the calls that touch token balances, in sequences.          *)

LedgerMint ==
    /\ nOps < LedgerOps
    /\ \E account \in Users, amount \in Amounts : Mint(account, amount)
LedgerBurn ==
    /\ nOps < LedgerOps
    /\ \E sender \in Users, amount \in Amounts : Burn(sender, amount)
LedgerTransfer ==
    /\ nOps < LedgerOps
    /\ \E sender, to \in Users, value \in Amounts : Transfer(sender, to, value)
LedgerTransferFrom ==
    /\ nOps < LedgerOps
    /\ \E sender, from \in Users, to \in {"C"}, value \in ConcurrentAmounts :
           TransferFrom(sender, from, to, value)
LedgerTransferFromZkapp ==
    /\ nOps < LedgerOps
    /\ \E from, to \in Users, value \in ConcurrentAmounts :
           \E approve \in Callbacks(from, value) :
               TransferFromZkapp(from, to, value, approve)
LedgerApproveZkapp ==
    /\ nOps < LedgerOps
    /\ \E callback \in ZkappCallbacks : ApproveZkapp(callback)

LedgerNext ==
    \/ LedgerMint
    \/ LedgerBurn
    \/ LedgerTransfer
    \/ LedgerTransferFrom
    \/ LedgerTransferFromZkapp
    \/ LedgerApproveZkapp

SpecLedger == Init /\ [][LedgerNext]_vars

----------------------------------------------------------------------------
(* Properties *)

SameSupplySnapshot ==
    {i \in 1..Len(pending) :
        /\ pending[i].call.op \in {"mint", "burn"}
        /\ pending[i].call.snapshot.total = last.snapshot.total}

\* C9 as stated: of two mint or burn transactions built against the same
\* totalAmountInCirculation, once one has settled the other is rejected.
C9_OtherAlwaysRejected ==
    (last.op \in {"mint", "burn"} /\ last.ok)
        => \A i \in SameSupplySnapshot : ~CanSettle(pending[i].tx)

\* C9 amended: every pending transaction passed its assertions when it was
\* built; once a mint or burn of a non-zero amount has settled, every mint
\* or burn built against the same totalAmountInCirculation is rejected; and
\* in every interleaving the supply is the sum of the settled amounts.
C9_StaleSupplyRejected ==
    /\ \A i \in 1..Len(pending) : pending[i].tx.ok
    /\ (last.op \in {"mint", "burn"} /\ last.ok /\ last.value # 0)
          => \A i \in SameSupplySnapshot : ~CanSettle(pending[i].tx)
    /\ totalAmountInCirculation = applied

\* A mint of a non-zero amount has settled while a burn built against the
\* same supply is still pending.
C9_Witness ==
    /\ last.op = "mint" /\ last.ok /\ last.value # 0
    /\ \E i \in SameSupplySnapshot :
          pending[i].call.op = "burn" /\ pending[i].call.value # 0

\* C10: of two approveSpend transactions for different (owner, spender)
\* pairs built against the same commitment, at most one settles.
C10_ApprovalsConflict ==
    (last.op = "approveSpend" /\ last.ok)
        => \A i \in 1..Len(pending) :
              (/\ pending[i].call.op = "approveSpend"
               /\ pending[i].call.snapshot.commitment = last.snapshot.commitment
               /\ <<pending[i].call.from, pending[i].call.to>> # <<last.from, last.to>>)
                  => ~CanSettle(pending[i].tx)


\* C2: allowance(owner, spender, path'), called right after
\* approveSpend(owner, spender, v, path) took effect and given the path of
\* the record in the updated tree, returns v (stated for the calls of
\* allowance that return).
C2_ApproveThenAllowance ==
    [][(/\ last.op = "approveSpend" /\ last.ok
        /\ last'.op = "allowance"
        /\ last'.from = last.from /\ last'.to = last.to
        /\ last'.path = CorrectPath(last.from, last.to))
          => (last'.ok => last'.ret = <<last.value>>)]_vars

\* C3: transferFrom(from, to, v) called by sender, with `from` holding at
\* least v, takes effect if and only if the allowance of (from, sender) is at
\* least v.
C3_TransferFromIffAllowance ==
    (last.op = "transferFrom" /\ last.snapshot.balance[last.from] >= last.value)
        => (last.ok <=> TrueAllowance(storage, last.from, last.sender) >= last.value)

\* C4: the scenario.  From deployment, mint(A, 100) gives a supply of 100 and
\* A a balance of 100; approveSpend(B, 40) by A sets the commitment and emits
\* Approval{A, B, 40}; with that allowance in place and A funded,
\* transferFrom(A, C, 30) and transferFrom(A, C, 20) by B take effect, credit
\* C, emit Transfer{A, C, value}, and the allowance of (A, B) still reads 40.
C4_Scenario ==
    /\ (last.op = "mint" /\ last.snapshot.total = 0)
          => (/\ last.ok
              /\ totalAmountInCirculation = 100
              /\ balance["A"] = 100)
    /\ last.op = "approveSpend"
          => (/\ last.ok
              /\ commitment = calculateRoot(last.path, Allowance_hash("A", "B", 40))
              /\ last.events = <<ApprovalEvent("A", "B", 40)>>)
    /\ (/\ last.op = "transferFrom" /\ last.sender = "B"
        /\ last.value \in {20, 30}
        /\ TrueAllowance(storage, "A", "B") = 40
        /\ last.snapshot.balance["A"] >= last.value)
          => (/\ last.ok
              /\ balance["C"] = last.snapshot.balance["C"] + last.value
              /\ last.events = <<TransferEvent("A", "C", last.value)>>)
    /\ (last.op = "allowance" /\ TrueAllowance(storage, "A", "B") = 40)
          => (last.ok /\ last.ret = <<40>>)

\* C5: decreaseAllowance(spender, d) by an owner whose allowance for spender
\* is less than d fails: the commitment and the allowance table stay as they
\* were and no event is emitted.
C5_DecreaseBeyondAllowanceFails ==
    (last.op = "decreaseAllowance" /\ last.value > last.prior)
        => (/\ ~last.ok
            /\ commitment = last.snapshot.commitment
            /\ TrueAllowance(storage, last.from, last.to) = last.prior
            /\ last.events = <<>>)

\* decreaseAllowance of more than an allowance that is not zero.
C5_Witness ==
    /\ last.op = "decreaseAllowance"
    /\ last.prior > 0
    /\ last.value > last.prior
    /\ ~last.ok

\* C6: decreaseAllowance(spender, d) right after an increaseAllowance(spender,
\* d) of the same owner that took effect, both with the path of the record,
\* takes effect and leaves the allowance of (owner, spender) at the value it
\* had before the increase.
C6_IncreaseThenDecrease ==
    [][(/\ last.op = "increaseAllowance" /\ last.ok
        /\ last.path = CorrectPath(last.from, last.to)
        /\ last'.op = "decreaseAllowance"
        /\ last'.from = last.from /\ last'.to = last.to
        /\ last'.value = last.value
        /\ last'.path = last.path)
          => (/\ last'.ok
              /\ TrueAllowance(storage', last.from, last.to) = last.prior)]_vars

\* The callback of the last call is not the exact debit transferFromZkapp
\* asks for.
BadCallback ==
    \/ last.callback.balanceChange # -last.value
    \/ last.callback.children # 0
    \/ last.callback.tokenId # ThisToken
    \/ last.callback.publicKey # last.from

\* C7: transferFromZkapp(from, to, value, callback) fails, with every balance
\* as it was and no event, when the balance change of the callback's update
\* is not -value, when the update has a child update, when its tokenId is not
\* this token, or when its address is not `from`.
C7_BadCallbackFails ==
    (last.op = "transferFromZkapp" /\ BadCallback)
        => (/\ ~last.ok
            /\ balance = last.snapshot.balance
            /\ last.events = <<>>)

\* A callback that debits a funded `from` by exactly value, and has a child
\* update.
C7_Witness ==
    /\ last.op = "transferFromZkapp"
    /\ last.value > 0
    /\ last.snapshot.balance[last.from] >= last.value
    /\ last.callback.balanceChange = -last.value
    /\ last.callback.tokenId = ThisToken
    /\ last.callback.publicKey = last.from
    /\ last.callback.children # 0
    /\ ~last.ok

\* C8: the commitment is the root of the tree over the allowance table.
C8_CommitmentIsRootOfTable ==
    commitment = MerkleRoot(storage)

\* A step that settles a call (at once, or one that was pending).
CallSettles == nOps' = nOps + 1 /\ Len(pending') <= Len(pending)

\* The on-chain fields, the balances, the token accounts and the allowance
\* table (which follows the Approval events) stay as they were, and the call
\* emitted no event.
NoEffect ==
    /\ UNCHANGED <<totalAmountInCirculation, commitment, balance, zkapps, storage>>
    /\ last'.events = <<>>

\* The call being settled fails for one of the reasons: the supply it
\* asserted is stale, the allowance is less than the value, the delegated
\* balance change is not zero, the burn exceeds the supply, the callback's
\* update has a child update.
FailureCause ==
    \/ last'.op \in {"mint", "burn"} /\ last'.snapshot.total # totalAmountInCirculation
    \/ /\ last'.op = "transferFrom"
       /\ last'.value > TrueAllowance(storage, last'.from, last'.sender)
    \/ last'.op = "approveZkapp" /\ last'.callback.balanceChange # 0
    \/ last'.op = "burn" /\ last'.value > last'.snapshot.total
    \/ /\ last'.op \in {"transferFromZkapp", "approveZkapp"}
       /\ last'.callback.children # 0

\* C11: a call with one of these reasons to fail fails, and a call that
\* fails, for whatever reason, leaves totalAmountInCirculation, commitment,
\* every balance and the events as they were.
C11_FailureHasNoEffect ==
    [][CallSettles =>
          /\ FailureCause => ~last'.ok
          /\ ~last'.ok => NoEffect]_vars

\* A mint that was built against a supply that has changed since was
\* rejected, with funds on the ledger.
C11_Witness ==
    /\ last.op = "mint" /\ ~last.ok
    /\ last.snapshot.total # totalAmountInCirculation
    /\ totalAmountInCirculation > 0

\* The last call emitted the event e, and that event only.
Emitted(e) == last.events = <<e>>

\* C12: a call that takes effect and changes a balance emits
\* Transfer{from, to, value} (mint, burn, transfer, transferFrom,
\* transferFromZkapp); a call that takes effect and changes an allowance emits
\* Approval{owner, spender, value} with the new value (approveSpend,
\* increaseAllowance, decreaseAllowance); and a call emits no event without
\* such a change.
C12_EventsFollowChanges ==
    /\ (/\ last.ok
        /\ last.op \in {"mint", "burn", "transfer", "transferFrom", "transferFromZkapp"}
        /\ balance # last.snapshot.balance)
          => Emitted(TransferEvent(last.from, last.to, last.value))
    /\ (/\ last.ok
        /\ last.op \in {"approveSpend", "increaseAllowance", "decreaseAllowance"}
        /\ TrueAllowance(storage, last.from, last.to) # last.prior)
          => Emitted(ApprovalEvent(last.from, last.to,
                                   TrueAllowance(storage, last.from, last.to)))
    /\ last.events # <<>>
          => \/ balance # last.snapshot.balance
             \/ /\ last.op \in {"approveSpend", "increaseAllowance", "decreaseAllowance"}
                /\ TrueAllowance(storage, last.from, last.to) # last.prior

\* C12 amended: a transfer, transferFrom or transferFromZkapp that takes
\* effect emits exactly Transfer{from, to, value}, whatever the value; an
\* approveSpend, increaseAllowance or decreaseAllowance that takes effect
\* emits exactly Approval{owner, spender, v} with v the value written to the
\* leaf behind the new commitment (the value argument for approveSpend); and
\* no other call, mint and burn included, and no call that fails emits an
\* event.
C12_EventsOfCalls ==
    /\ (last.ok /\ last.op \in {"transfer", "transferFrom", "transferFromZkapp"})
          => Emitted(TransferEvent(last.from, last.to, last.value))
    /\ (last.ok /\ last.op \in {"approveSpend", "increaseAllowance", "decreaseAllowance"})
          => LET v == TrueAllowance(storage, last.from, last.to) IN
                /\ Emitted(ApprovalEvent(last.from, last.to, v))
                /\ commitment = calculateRoot(last.path,
                                              Allowance_hash(last.from, last.to, v))
                /\ last.op = "approveSpend" => v = last.value
    /\ (\/ ~last.ok
        \/ last.op \notin {"transfer", "transferFrom", "transferFromZkapp",
                           "approveSpend", "increaseAllowance", "decreaseAllowance"})
          => last.events = <<>>

\* A transfer that moved tokens and emitted its event.
C12_Witness ==
    /\ last.op = "transfer" /\ last.ok
    /\ balance # last.snapshot.balance
    /\ Emitted(TransferEvent(last.from, last.to, last.value))

\* C13: only approveSpend, increaseAllowance and decreaseAllowance change the
\* commitment, and only mint and burn change totalAmountInCirculation: every
\* other call, the read accessors included, leaves the field as it was.
C13_OnlyWritersChangeFields ==
    /\ last.op \notin {"approveSpend", "increaseAllowance", "decreaseAllowance"}
          => commitment = last.snapshot.commitment
    /\ last.op \notin {"mint", "burn"}
          => totalAmountInCirculation = last.snapshot.total

\* A mint that took effect after an approval had set the commitment.
C13_Witness ==
    /\ last.op = "mint" /\ last.ok /\ last.value > 0
    /\ commitment # initialCommitment
    /\ commitment = last.snapshot.commitment

\* C14: right after init, totalAmountInCirculation is zero and the commitment
\* is the root of the empty tree of height 8, so that the witness of any slot
\* of the empty tree, applied to the empty leaf, gives the commitment.
C14_InitIsEmptyRoot ==
    last.op = "init"
        => /\ totalAmountInCirculation = 0
           /\ commitment = Zero(Height - 1)
           /\ \A i \in 0..(NumSlots - 1) :
                 calculateRoot(MerkleTree_getWitness(EmptyTable, i), Field(0))
                     = commitment

\* The sum of the balances of all accounts.
RECURSIVE SumOver(_, _)
SumOver(bal, accounts) ==
    IF accounts = {} THEN 0
    ELSE LET a == CHOOSE x \in accounts : TRUE
         IN bal[a] + SumOver(bal, accounts \ {a})

SumOfBalances(bal) == SumOver(bal, Accounts)

\* C15: a transferFromZkapp(from, to, value, callback) that takes effect
\* debits `from` by value and credits `to` by value (both on the same account
\* when from = to), changes no other balance, emits Transfer{from, to, value},
\* and leaves the sum of the balances, totalAmountInCirculation and the
\* commitment as they were.
C15_ZkappTransferMovesValue ==
    (last.op = "transferFromZkapp" /\ last.ok)
        => /\ \A a \in Accounts :
                 balance[a] = last.snapshot.balance[a]
                                - (IF a = last.from THEN last.value ELSE 0)
                                + (IF a = last.to THEN last.value ELSE 0)
           /\ last.events = <<TransferEvent(last.from, last.to, last.value)>>
           /\ SumOfBalances(balance) = SumOfBalances(last.snapshot.balance)
           /\ totalAmountInCirculation = last.snapshot.total
           /\ commitment = last.snapshot.commitment

\* A transferFromZkapp that moved tokens from one account to another.
C15_Witness ==
    /\ last.op = "transferFromZkapp" /\ last.ok
    /\ last.value > 0 /\ last.from # last.to
    /\ balance[last.to] = last.snapshot.balance[last.to] + last.value

\* C16: approveZkapp(callback) takes effect only when the callback's update
\* has no child update and a balance change of zero, and, whether it takes
\* effect or not, leaves every balance, totalAmountInCirculation and the
\* commitment as they were.
C16_ApproveZkappMovesNothing ==
    last.op = "approveZkapp"
        => /\ last.ok => (/\ last.callback.children = 0
                          /\ last.callback.balanceChange = 0)
           /\ balance = last.snapshot.balance
           /\ totalAmountInCirculation = last.snapshot.total
           /\ commitment = last.snapshot.commitment

\* An approveZkapp that took effect on an update of a funded account of this
\* token.
C16_Witness ==
    /\ last.op = "approveZkapp" /\ last.ok
    /\ last.callback.tokenId = ThisToken
    /\ balance[last.callback.publicKey] > 0

\* The path of the last call leads to the commitment the call was built on
\* from the empty leaf or from a leaf of (from, to) with value v.
PathFitsCommitment ==
    \E leaf \in {Field(0)} \cup
                {Allowance_hash(last.from, last.to, v) : v \in Amounts} :
        calculateRoot(last.path, leaf) = last.snapshot.commitment

\* C17: approveSpend(spender, value, path) takes effect for every path,
\* whether or not the path leads to the current commitment; it sets the
\* commitment to the root computed from path and hash(sender, spender, value)
\* and emits Approval{owner: sender, spender, value}.
C17_ApproveSpendAnyPath ==
    last.op = "approveSpend"
        => /\ last.ok
           /\ commitment =
                 calculateRoot(last.path,
                               Allowance_hash(last.sender, last.to, last.value))
           /\ last.events = <<ApprovalEvent(last.sender, last.to, last.value)>>
           /\ last.ret = <<TRUE>>

\* An approveSpend that took effect with a path that does not lead to the
\* commitment set by an earlier approval.
C17_Witness ==
    /\ last.op = "approveSpend" /\ last.ok
    /\ last.snapshot.commitment # initialCommitment
    /\ ~PathFitsCommitment

====
